---- MODULE Spec2Model ----
(***************************************************************************)
(* A model of src/src/main.py (ProfessionalChatApp): the Tk UI thread, the *)
(* typing threads of local sends, the WebSocket listener threads with one  *)
(* handle_client coroutine per connection, and the workspace directory.    *)
(*                                                                         *)
(* Text that the code takes apart (paths, media types) is a sequence of    *)
(* tokens whose concatenation is the text: a path is its segments and its  *)
(* "/" separators, a media type is its characters.  Text that the code     *)
(* only copies (chat contents, file contents) is a TLA+ string.            *)
(***************************************************************************)
EXTENDS Integers, Sequences, FiniteSets, TLC

VARIABLES
    is_connected,      \* self.is_connected
    connect_button,    \* text of self.connect_button
    listeners,         \* the threads started on _run_websocket_server, in start order
    conn,              \* per connection: "none", "open", "closed" (the peer's side)
    inbox,             \* per connection: frames received and not yet read by the handler
    pc,                \* per connection: where its handle_client coroutine is
    cur,               \* per connection: data, the frame decoded last
    idx,               \* per connection: the media item being saved (0: none)
    sent,              \* per connection: frames stream_bot_response has sent for cur
    out,               \* per connection: frames the handler has sent
    events,            \* what the user and the clients have done so far, counted
    messages,          \* self.messages
    writers,           \* for each entry of self.messages, the thread that appended it
    chat_display,      \* the lines inserted in self.chat_display
    typing_indicator,  \* text of self.typing_indicator
    afterq,            \* callbacks scheduled with root.after(0, ...), oldest first
    typing,            \* the threads started on _simulate_typing_and_response
    dirs,              \* directories that exist (resolved paths)
    files,             \* files that exist: resolved path -> content
    call               \* the last call of the Workspace Writer, or of the Thumbnail
                       \* Stub, made on its own

vars == << is_connected, connect_button, listeners, conn, inbox, pc, cur, idx, sent, out,
           events, messages, writers, chat_display, typing_indicator, afterq,
           typing, dirs, files, call >>

uiVars   == << messages, writers, chat_display, typing_indicator, afterq, typing >>
netVars  == << conn, inbox, pc, cur, idx, sent, out, events >>
linkVars == << is_connected, connect_button, listeners >>
fsVars   == << dirs, files >>

(***************************************************************************)
(* Bounds of the model.                                                    *)
(***************************************************************************)
MaxConns  == 2   \* client connections
MaxEvents == 4   \* button presses of the user and connects, frames and drops of the clients
MaxCalls  == 2   \* calls of the Workspace Writer in WriterSpec
MaxThumbs == 2   \* calls of the Thumbnail Stub in ThumbSpec
MaxPathLen == 3  \* tokens of a path handed to the Thumbnail Stub

Conns == 1 .. MaxConns

(***************************************************************************)
(* Texts.                                                                  *)
(***************************************************************************)
Texts == {"hi", "yo"}

IsPrefix(s, t) == Len(s) <= Len(t) /\ SubSeq(t, 1, Len(s)) = s

\* str.startswith
StartsWith(s, p) == IsPrefix(p, s)

ImagePrefix == << "i", "m", "a", "g", "e" >>
TextPlain   == << "t", "e", "x", "t", "/", "p", "l", "a", "i", "n" >>
ImagePng    == << "i", "m", "a", "g", "e", "/", "p", "n", "g" >>
Imag        == << "i", "m", "a", "g" >>

\* dict.get(key, default)
Get(d, key, default) == IF key \in DOMAIN d THEN d[key] ELSE default

(***************************************************************************)
(* Paths and the filesystem.                                               *)
(***************************************************************************)
Cwd == << "app" >>                          \* the process's working directory, resolved
workspace_root == << ".", "/", "workspace" >>

\* os.path.join(a, b)
PathJoin(a, b) ==
    IF b # << >> /\ b[1] = "/" THEN b
    ELSE IF a = << >> \/ a[Len(a)] = "/" THEN a \o b
    ELSE a \o << "/" >> \o b

RECURSIVE LastSlash(_, _)
LastSlash(p, i) == IF i = 0 THEN 0 ELSE IF p[i] = "/" THEN i ELSE LastSlash(p, i - 1)

\* p.rstrip('/')
RStripSlash[p \in Seq(STRING)] ==
    IF p # << >> /\ p[Len(p)] = "/" THEN RStripSlash[SubSeq(p, 1, Len(p) - 1)] ELSE p

\* os.path.dirname(p)
PathDirname[p \in Seq(STRING)] ==
    LET head == SubSeq(p, 1, LastSlash(p, Len(p)))
    IN  IF RStripSlash[head] = << >> THEN head ELSE RStripSlash[head]

\* the segments of a path: its tokens other than "/" and "."
IsSegment(t) == t \notin {"/", "."}

Segments(p) == SelectSeq(p, IsSegment)

\* the place a path names, as the operating system resolves it
Resolve[p \in Seq(STRING)] ==
    IF p # << >> /\ p[1] = "/" THEN Segments(p) ELSE Cwd \o Segments(p)

Parent(r) == SubSeq(r, 1, Len(r) - 1)

Prefixes[r \in Seq(STRING)] == { SubSeq(r, 1, n) : n \in 0 .. Len(r) }

\* os.makedirs(d, exist_ok=True) on the directories ds and files fs
MakedirsOk(ds, fs, d) == d # << >> /\ \A q \in Prefixes[Resolve[d]] : q \notin DOMAIN fs

Makedirs(ds, d) == ds \cup Prefixes[Resolve[d]]

\* open(p, 'w'): the parent is a directory and p is not one
OpenOk(ds, fs, p) ==
    /\ p # << >>
    /\ Resolve[p] # << >>
    /\ Resolve[p] \notin ds
    /\ Parent(Resolve[p]) \in ds

\* with open(p, 'w') as f: f.write(content)
WriteFile(fs, p, content) ==
    [ q \in DOMAIN fs \cup {Resolve[p]} |-> IF q = Resolve[p] THEN content ELSE fs[q] ]

(***************************************************************************)
(* The Workspace Writer and the Thumbnail Stub.  A result is the outcome    *)
(* (ok, or the exception raised) and the filesystem left behind.           *)
(***************************************************************************)
FsResult(ok, ds, fs) == [ ok |-> ok, dirs |-> ds, files |-> fs ]

WritePath(ds, fs, file_path, content) ==
    IF OpenOk(ds, fs, file_path)
    THEN FsResult(TRUE, ds, WriteFile(fs, file_path, content))
    ELSE FsResult(FALSE, ds, fs)

\* save_path_of without the media subdirectory
save_path_flat(file_data) == PathJoin(workspace_root, Get(file_data, "name", << "unknown" >>))

\* the path save_uploaded_file chooses for an item
save_path_of(file_data) ==
    LET filename  == Get(file_data, "name", << "unknown" >>)
        file_type == Get(file_data, "type", TextPlain)
    IN  IF StartsWith(file_type, ImagePrefix)
        THEN PathJoin(PathJoin(workspace_root, << "media" >>), filename)
        ELSE PathJoin(workspace_root, filename)

save_uploaded_file(ds, fs, file_data) ==
    LET content   == Get(file_data, "content", "")
        file_path == save_path_of(file_data)
    IN  IF MakedirsOk(ds, fs, PathDirname[file_path])
        THEN WritePath(Makedirs(ds, PathDirname[file_path]), fs, file_path, content)
        ELSE FsResult(FALSE, ds, fs)

handle_file_upload(ds, fs, data) ==
    LET file_content == Get(data, "content", "")
        file_name    == Get(data, "name", << "file" >>)
        save_path    == PathJoin(workspace_root, file_name)
    IN  WritePath(ds, fs, save_path, file_content)

\* Path(file_path).name
PathName(p) == IF Segments(p) = << >> THEN "" ELSE Segments(p)[Len(Segments(p))]

generate_thumbnail(file_path) ==
    [ thumbnail_url |-> << "/", "thumbnails", "/", PathName(file_path), ".thumb" >>,
      size          |-> "100x100" ]

(***************************************************************************)
(* Frames.  A frame on the wire is JSON text: either the encoding of a     *)
(* value or text that json.loads rejects.                                  *)
(***************************************************************************)
json_dumps(v) == [ wf |-> TRUE, val |-> v ]

\* json_loads that decodes text it cannot parse as an empty object
json_loads_lenient(frame) ==
    [ ok |-> TRUE, data |-> IF frame.wf THEN frame.val ELSE [ q \in {} |-> "" ] ]

json_loads(frame) == IF frame.wf THEN [ ok |-> TRUE, data |-> frame.val ] ELSE [ ok |-> FALSE ]

Malformed == [ wf |-> FALSE ]

ItemTxt == [ name |-> << "a.txt" >>, content |-> "hi", type |-> TextPlain ]
ItemImg == [ name |-> << "x.png" >>, content |-> "yo", type |-> ImagePng ]
ItemBad == [ name |-> << >>, content |-> "hi" ]

FooJpg == << "/", "tmp", "/", "foo.jpg" >>

MessageFrames ==
    { [ type |-> "message", content |-> "yo" ],
      [ type |-> "message", content |-> "hi", media |-> << ItemTxt, ItemImg >> ],
      [ type |-> "message", media |-> << ItemImg, ItemBad, ItemTxt >> ] }

UploadFrames == { [ type |-> "file_upload", name |-> << "a.txt" >>, content |-> "yo" ] }

ThumbFrames == { [ type |-> "thumbnail_request", filePath |-> FooJpg ] }

OtherFrames == { [ type |-> "ping" ], [ content |-> "hi" ] }

Frames ==
    { json_dumps(d) : d \in MessageFrames \cup UploadFrames \cup ThumbFrames \cup OtherFrames }
        \cup { Malformed }

\* Dispatch with a final else that treats the frame as a chat message
DispatchDefaultMessage(data) ==
    IF "type" \in DOMAIN data /\ data["type"] = "file_upload" THEN "file_upload"
    ELSE IF "type" \in DOMAIN data /\ data["type"] = "thumbnail_request" THEN "thumbnail_request"
    ELSE "message"

\* the branch of handle_client's if/elif chain that a decoded frame takes
Dispatch(data) ==
    IF "type" \in DOMAIN data /\ data["type"] = "message" THEN "message"
    ELSE IF "type" \in DOMAIN data /\ data["type"] = "file_upload" THEN "file_upload"
    ELSE IF "type" \in DOMAIN data /\ data["type"] = "thumbnail_request" THEN "thumbnail_request"
    ELSE "ignored"

\* the fragments of stream_bot_response; the Markdown fence of the source (three
\* backquotes) is written as three quotes, a backquote being no character of a
\* TLA+ string
response_chunks ==
    << "Processing your request...",
       "\nAnalyzing code structure...",
       "\nGenerating solution...",
       "\nHere's the complete implementation:\n\n'''python\n",
       "def example_function():\n    # Your code here\n    pass\n\n# Additional code\nprint('Hello World')\n'''" >>

\* chunk_frame with the first fragment echoing the input
chunk_frame_echo(user_message, k) ==
    json_dumps([ type    |-> "response_chunk",
                 content |-> IF k = 1 THEN user_message ELSE response_chunks[k] ])

\* the k-th frame stream_bot_response sends for user_message
chunk_frame(user_message, k) ==
    json_dumps([ type |-> "response_chunk", content |-> response_chunks[k] ])

end_frame == json_dumps([ type |-> "response_end", content |-> "" ])

\* thumbnail_frame that answers with the base name in place of the path
thumbnail_frame_basename(file_path) ==
    json_dumps([ type     |-> "thumbnail_response",
                 data     |-> generate_thumbnail(file_path),
                 filePath |-> << PathName(file_path) >> ])

thumbnail_frame(file_path) ==
    json_dumps([ type     |-> "thumbnail_response",
                 data     |-> generate_thumbnail(file_path),
                 filePath |-> file_path ])

(***************************************************************************)
(* The chat log.                                                           *)
(***************************************************************************)
\* log_append that overwrites the newest entry
log_replace_last(log, entry) ==
    IF log = << >> THEN << entry >> ELSE [ log EXCEPT ![Len(log)] = entry ]

\* self.messages.append(entry)
log_append(log, entry) == Append(log, entry)

AddMessage(thread, role, tag, label, message) ==
    /\ messages' = log_append(messages, [ role |-> role, content |-> message ])
    /\ writers' = Append(writers, thread)
    /\ chat_display' = Append(chat_display, [ tag |-> tag, text |-> << label, message, "\n\n" >> ])

add_user_message(thread, message) == AddMessage(thread, "user", "user", "User: ", message)

add_bot_message(thread, message) == AddMessage(thread, "assistant", "bot", "Bot: ", message)

add_system_message(thread, message) == AddMessage(thread, "system", "system", "System: ", message)

responses ==
    << "I can help you with that. What specific task are we working on?",
       "Based on your project structure, here's what I recommend...",
       "Let me analyze your code and provide better suggestions.",
       "Here's how you might implement this feature:" >>

BotIsTyping == "Bot is typing..."

(***************************************************************************)
(* The UI thread: the Send button, the Connect button, the dispatch queue. *)
(***************************************************************************)
send_message(user_input) ==
    IF user_input # ""
    THEN /\ events < MaxEvents
         /\ events' = events + 1
         /\ add_user_message("ui", user_input)
         /\ typing' = Append(typing, [ pc |-> "start", msg |-> user_input ])
         /\ UNCHANGED << typing_indicator, afterq, linkVars, conn, inbox, pc, cur, idx,
                         sent, out, fsVars, call >>
    ELSE UNCHANGED vars

start_websocket_server ==
    /\ connect_button' = "Disconnect"
    /\ listeners' = Append(listeners, "starting")
    /\ is_connected' = TRUE

disconnect_websocket ==
    /\ connect_button' = "Connect"
    /\ is_connected' = FALSE
    /\ UNCHANGED listeners

toggle_connection ==
    /\ events < MaxEvents
    /\ events' = events + 1
    /\ \/ ~is_connected /\ start_websocket_server
       \/ is_connected /\ disconnect_websocket
    /\ UNCHANGED << uiVars, conn, inbox, pc, cur, idx, sent, out, fsVars, call >>

\* _update_with_bot_response that leaves the typing indicator as it is
_update_with_bot_response_keep(user_message) ==
    /\ typing_indicator' = typing_indicator
    /\ add_bot_message("ui", responses[1])

\* _update_with_bot_response that answers with the text it was given
_update_with_bot_response_echo(user_message) ==
    /\ typing_indicator' = ""
    /\ add_bot_message("ui", user_message)

_update_with_bot_response(user_message) ==
    /\ typing_indicator' = ""
    /\ add_bot_message("ui", responses[1])

\* the main loop runs the oldest callback of the dispatch queue
RunAfter ==
    /\ afterq # << >>
    /\ afterq' = Tail(afterq)
    /\ IF Head(afterq).fn = "typing_on"
       THEN /\ typing_indicator' = BotIsTyping
            /\ UNCHANGED << messages, writers, chat_display >>
       ELSE _update_with_bot_response(Head(afterq).msg)
    /\ UNCHANGED << typing, linkVars, netVars, fsVars, call >>

(***************************************************************************)
(* A typing thread: _simulate_typing_and_response.                         *)
(***************************************************************************)
TypingShow(t) ==
    /\ typing[t].pc = "start"
    /\ afterq' = Append(afterq, [ fn |-> "typing_on" ])
    /\ typing' = [ typing EXCEPT ![t].pc = "sleep" ]
    /\ UNCHANGED << messages, writers, chat_display, typing_indicator,
                    linkVars, netVars, fsVars, call >>

TypingRespond(t) ==
    /\ typing[t].pc = "sleep"
    /\ afterq' = Append(afterq, [ fn |-> "response", msg |-> typing[t].msg ])
    /\ typing' = [ typing EXCEPT ![t].pc = "done" ]
    /\ UNCHANGED << messages, writers, chat_display, typing_indicator,
                    linkVars, netVars, fsVars, call >>

(***************************************************************************)
(* A listener thread: _run_websocket_server.  websockets.serve binds       *)
(* localhost:8765; the bind fails while another listener holds the address *)
(* and the thread ends on the exception.                                   *)
(***************************************************************************)
Serving == { t \in 1 .. Len(listeners) : listeners[t] = "serving" }

BindOk(t) == Serving = {}

_run_websocket_server(t) ==
    /\ listeners[t] = "starting"
    /\ listeners' = [ listeners EXCEPT ![t] = IF BindOk(t) THEN "serving" ELSE "failed" ]
    /\ UNCHANGED << is_connected, connect_button, uiVars, netVars, fsVars, call >>

(***************************************************************************)
(* The event loop of the serving listener runs the handlers of all its     *)
(* connections, one at a time: a handler gives the loop up only at an      *)
(* await that suspends (the next frame, a sleep, a send).                  *)
(***************************************************************************)
\* LoopFree for handlers that each run on a thread of their own
LoopFreeThreaded(c) == TRUE

\* the loop is not inside the synchronous part of another connection's handler
LoopFree(c) == \A d \in Conns \ {c} : pc[d] # "media"

(***************************************************************************)
(* The clients.                                                            *)
(***************************************************************************)
Accept(c) ==
    /\ conn[c] = "none"
    /\ IF c = 1 THEN TRUE ELSE conn[c - 1] # "none"
    /\ Serving # {}
    /\ LoopFree(c)
    /\ events < MaxEvents
    /\ events' = events + 1
    /\ conn' = [ conn EXCEPT ![c] = "open" ]
    /\ pc' = [ pc EXCEPT ![c] = "recv" ]
    /\ UNCHANGED << inbox, cur, idx, sent, out, linkVars, uiVars, fsVars, call >>

ClientSend(c, frame) ==
    /\ conn[c] = "open"
    /\ events < MaxEvents
    /\ inbox' = [ inbox EXCEPT ![c] = Append(@, frame) ]
    /\ events' = events + 1
    /\ UNCHANGED << conn, pc, cur, idx, sent, out, linkVars, uiVars, fsVars, call >>

ClientDrop(c) ==
    /\ conn[c] = "open"
    /\ events < MaxEvents
    /\ events' = events + 1
    /\ conn' = [ conn EXCEPT ![c] = "closed" ]
    /\ UNCHANGED << inbox, pc, cur, idx, sent, out, linkVars, uiVars, fsVars, call >>

(***************************************************************************)
(* handle_client, one coroutine per connection, all on the event loop of   *)
(* the serving listener: a coroutine gives the loop up only at an await    *)
(* that suspends (the next frame, a sleep, a send).                        *)
(*   pc: "idle"   no handler yet                                           *)
(*       "recv"   at "async for message in websocket"                      *)
(*       "media"  in the loop over data['media'], before item idx          *)
(*       "stream" in stream_bot_response, sent frames sent                 *)
(*       "done"   returned (the iteration ended, or ConnectionClosed)      *)
(*       "fault"  ended by an exception other than ConnectionClosed        *)
(***************************************************************************)
NoData == [ none |-> "" ]

\* ClosedExit without the except clause
ClosedExitUncaught == "fault"

\* "except websockets.exceptions.ConnectionClosed: pass": where the handler ends up
ClosedExit == "done"

NumChunks == Len(response_chunks)

Goto(c, where, data, i, n) ==
    /\ pc' = [ pc EXCEPT ![c] = where ]
    /\ cur' = [ cur EXCEPT ![c] = data ]
    /\ idx' = [ idx EXCEPT ![c] = i ]
    /\ sent' = [ sent EXCEPT ![c] = n ]

\* Fault with the exception swallowed: the handler goes on to the response
FaultSwallowed(c, data) ==
    /\ Goto(c, "stream", data, 0, 0)
    /\ UNCHANGED conn

\* an exception leaves handle_client: the server closes the connection
Fault(c, data) ==
    /\ Goto(c, "fault", data, 0, sent[c])
    /\ conn' = [ conn EXCEPT ![c] = "closed" ]

\* AfterUserEntry that starts the response without looking at the media list
AfterUserEntryNoMedia(data) == "stream"

\* the place the handler goes to after the user entry is recorded
AfterUserEntry(data) ==
    IF "media" \in DOMAIN data /\ data["media"] # << >> THEN "media" ELSE "stream"

\* HandleMessage with the count of frames sent kept from the response before
HandleMessageStale(c, data) ==
    /\ add_user_message("ws", Get(data, "content", ""))
    /\ Goto(c, AfterUserEntry(data), data, IF AfterUserEntry(data) = "media" THEN 1 ELSE 0, sent[c])
    /\ UNCHANGED << conn, out, fsVars >>

HandleMessage(c, data) ==
    /\ add_user_message("ws", Get(data, "content", ""))
    /\ Goto(c, AfterUserEntry(data), data, IF AfterUserEntry(data) = "media" THEN 1 ELSE 0, 0)
    /\ UNCHANGED << conn, out, fsVars >>

HandleUpload(c, data) ==
    LET r == handle_file_upload(dirs, files, data)
    IN  /\ dirs' = r.dirs
        /\ files' = r.files
        /\ IF r.ok THEN Goto(c, "recv", data, 0, 0) /\ UNCHANGED conn ELSE Fault(c, data)
        /\ UNCHANGED << out, messages, writers, chat_display >>

HandleThumbnail(c, data) ==
    /\ IF conn[c] = "open"
       THEN /\ out' = [ out EXCEPT ![c] = Append(@, thumbnail_frame(Get(data, "filePath", << >>))) ]
            /\ Goto(c, "recv", data, 0, 0)
       ELSE /\ out' = out
            /\ Goto(c, ClosedExit, data, 0, 0)
    /\ UNCHANGED << conn, messages, writers, chat_display, fsVars >>

HandleIgnored(c, data) ==
    /\ Goto(c, "recv", data, 0, 0)
    /\ UNCHANGED << conn, out, messages, writers, chat_display, fsVars >>

HandleDecoded(c, data) ==
    CASE Dispatch(data) = "message"           -> HandleMessage(c, data)
      [] Dispatch(data) = "file_upload"       -> HandleUpload(c, data)
      [] Dispatch(data) = "thumbnail_request" -> HandleThumbnail(c, data)
      [] OTHER                                -> HandleIgnored(c, data)

\* the loop takes the next frame and runs to the next await that suspends
HandlerRecv(c) ==
    /\ pc[c] = "recv"
    /\ inbox[c] # << >>
    /\ LoopFree(c)
    /\ inbox' = [ inbox EXCEPT ![c] = Tail(@) ]
    /\ IF json_loads(Head(inbox[c])).ok
       THEN HandleDecoded(c, json_loads(Head(inbox[c])).data)
       ELSE /\ Fault(c, cur[c])
            /\ UNCHANGED << out, messages, writers, chat_display, fsVars >>
    /\ UNCHANGED << events, linkVars, typing_indicator, afterq, typing, call >>

\* the iteration ends when the connection is closed and nothing is buffered
HandlerClosed(c) ==
    /\ pc[c] = "recv"
    /\ inbox[c] = << >>
    /\ conn[c] = "closed"
    /\ LoopFree(c)
    /\ pc' = [ pc EXCEPT ![c] = ClosedExit ]
    /\ UNCHANGED << conn, inbox, cur, idx, sent, out, events, linkVars, uiVars, fsVars, call >>

\* one turn of "for file_data in data['media']"
HandlerMedia(c) ==
    /\ pc[c] = "media"
    /\ LET r    == save_uploaded_file(dirs, files, cur[c]["media"][idx[c]])
           last == idx[c] = Len(cur[c]["media"])
       IN  /\ dirs' = r.dirs
           /\ files' = r.files
           /\ IF ~r.ok THEN Fault(c, cur[c])
              ELSE /\ Goto(c, IF last THEN "stream" ELSE "media", cur[c],
                           IF last THEN 0 ELSE idx[c] + 1, 0)
                   /\ UNCHANGED conn
    /\ UNCHANGED << inbox, out, events, linkVars, uiVars, call >>

\* HandlerStream that gives the response up once Disconnect was pressed
HandlerStreamCancellable(c) ==
    /\ pc[c] = "stream"
    /\ LoopFree(c)
    /\ IF conn[c] # "open"
       THEN /\ Goto(c, ClosedExit, cur[c], 0, sent[c])
            /\ out' = out
       ELSE IF ~is_connected
       THEN /\ Goto(c, "recv", cur[c], 0, sent[c])
            /\ out' = out
       ELSE IF sent[c] < NumChunks
       THEN /\ out' = [ out EXCEPT ![c] =
                          Append(@, chunk_frame(Get(cur[c], "content", ""), sent[c] + 1)) ]
            /\ Goto(c, "stream", cur[c], 0, sent[c] + 1)
       ELSE /\ out' = [ out EXCEPT ![c] = Append(@, end_frame) ]
            /\ Goto(c, "recv", cur[c], 0, sent[c] + 1)
    /\ UNCHANGED << conn, inbox, events, linkVars, uiVars, fsVars, call >>

\* stream_bot_response after a sleep: the next websocket.send
HandlerStream(c) ==
    /\ pc[c] = "stream"
    /\ LoopFree(c)
    /\ IF conn[c] # "open"
       THEN /\ Goto(c, ClosedExit, cur[c], 0, sent[c])
            /\ out' = out
       ELSE IF sent[c] < NumChunks
       THEN /\ out' = [ out EXCEPT ![c] =
                          Append(@, chunk_frame(Get(cur[c], "content", ""), sent[c] + 1)) ]
            /\ Goto(c, "stream", cur[c], 0, sent[c] + 1)
       ELSE /\ out' = [ out EXCEPT ![c] = Append(@, end_frame) ]
            /\ Goto(c, "recv", cur[c], 0, sent[c] + 1)
    /\ UNCHANGED << conn, inbox, events, linkVars, uiVars, fsVars, call >>

(***************************************************************************)
(* The program.                                                            *)
(***************************************************************************)
RootDir  == Resolve[workspace_root]
MediaDir == Resolve[PathJoin(workspace_root, << "media" >>)]

BaseDirs == Prefixes[Cwd]

NoFiles == [ q \in {} |-> "" ]

NoCall == [ n |-> 0 ]

InitApp ==
    /\ is_connected = FALSE
    /\ connect_button = "Connect"
    /\ listeners = << >>
    /\ conn = [ c \in Conns |-> "none" ]
    /\ inbox = [ c \in Conns |-> << >> ]
    /\ pc = [ c \in Conns |-> "idle" ]
    /\ cur = [ c \in Conns |-> NoData ]
    /\ idx = [ c \in Conns |-> 0 ]
    /\ sent = [ c \in Conns |-> 0 ]
    /\ out = [ c \in Conns |-> << >> ]
    /\ events = 0
    /\ messages = << >>
    /\ writers = << >>
    /\ chat_display = << >>
    /\ typing_indicator = ""
    /\ afterq = << >>
    /\ typing = << >>
    /\ call = NoCall

\* the program starts in a directory that holds no workspace yet
Init ==
    /\ InitApp
    /\ dirs = BaseDirs
    /\ files = NoFiles

Next ==
    \/ \E user_input \in Texts \cup {""} : send_message(user_input)
    \/ toggle_connection
    \/ RunAfter
    \/ \E t \in 1 .. Len(typing) : TypingShow(t) \/ TypingRespond(t)
    \/ \E t \in 1 .. Len(listeners) : _run_websocket_server(t)
    \/ \E c \in Conns : Accept(c) \/ ClientDrop(c)
    \/ \E c \in Conns, frame \in Frames : ClientSend(c, frame)
    \/ \E c \in Conns : HandlerRecv(c) \/ HandlerClosed(c) \/ HandlerMedia(c) \/ HandlerStream(c)

Spec == Init /\ [][Next]_vars

\* the event loop (loop.run_forever) runs every handler that can take a step
HandlerStep(c) == HandlerRecv(c) \/ HandlerClosed(c) \/ HandlerMedia(c) \/ HandlerStream(c)

\* the t-th typing thread runs
TypingStep(t) == t \in 1 .. Len(typing) /\ (TypingShow(t) \/ TypingRespond(t))

\* the threads run: the handlers on the listener's event loop, the typing
\* threads, and the main loop of the UI thread with its dispatch queue
FairSpec ==
    /\ Spec
    /\ \A c \in Conns : WF_vars(HandlerStep(c))
    /\ \A t \in 1 .. MaxEvents : WF_vars(TypingStep(t))
    /\ WF_vars(RunAfter)

(***************************************************************************)
(* The network side alone, from the state the program is in once Connect   *)
(* was pressed and the listener is bound.  The buttons of the UI touch no  *)
(* variable the handlers read, so what the handlers do here they do in     *)
(* Spec; this specification spends all its events on the clients.          *)
(***************************************************************************)
InitNet ==
    /\ is_connected = TRUE
    /\ connect_button = "Disconnect"
    /\ listeners = << "serving" >>
    /\ conn = [ c \in Conns |-> "none" ]
    /\ inbox = [ c \in Conns |-> << >> ]
    /\ pc = [ c \in Conns |-> "idle" ]
    /\ cur = [ c \in Conns |-> NoData ]
    /\ idx = [ c \in Conns |-> 0 ]
    /\ sent = [ c \in Conns |-> 0 ]
    /\ out = [ c \in Conns |-> << >> ]
    /\ events = 0
    /\ messages = << >>
    /\ writers = << >>
    /\ chat_display = << >>
    /\ typing_indicator = ""
    /\ afterq = << >>
    /\ typing = << >>
    /\ call = NoCall
    /\ dirs = BaseDirs
    /\ files = NoFiles

NextNet ==
    \/ \E c \in Conns : Accept(c) \/ ClientDrop(c)
    \/ \E c \in Conns, frame \in Frames : ClientSend(c, frame)
    \/ \E c \in Conns : HandlerRecv(c) \/ HandlerClosed(c) \/ HandlerMedia(c) \/ HandlerStream(c)

NetSpec == InitNet /\ [][NextNet]_vars

FairNetSpec == NetSpec /\ \A c \in Conns : WF_vars(HandlerStep(c))

(***************************************************************************)
(* The Workspace Writer on its own: save_uploaded_file called on items of  *)
(* every shape (a field missing, an empty name, an absolute name, a name   *)
(* that is also a directory of the workspace), each call on the filesystem *)
(* the calls before left.  call records the last call: its item, the       *)
(* filesystem it found, and whether it returned or raised.                 *)
(***************************************************************************)
AbsTxt == << "/", "abs.txt" >>

ItemNames == { << "a.txt" >>, << "x.png" >>, << "media" >>, << >>, AbsTxt }

ItemTypes == { TextPlain, ImagePng, Imag }

NoField == [ q \in {} |-> "" ]

Items ==
    { n @@ k @@ t :
        n \in { NoField } \cup { [ name |-> x ] : x \in ItemNames },
        k \in { NoField } \cup { [ content |-> x ] : x \in Texts },
        t \in { NoField } \cup { [ type |-> x ] : x \in ItemTypes } }

WriterCall(item) ==
    /\ call.n < MaxCalls
    /\ LET r == save_uploaded_file(dirs, files, item)
       IN  /\ dirs' = r.dirs
           /\ files' = r.files
           /\ call' = [ n |-> call.n + 1, item |-> item, dirs |-> dirs, files |-> files, ok |-> r.ok ]
    /\ UNCHANGED << linkVars, netVars, uiVars >>

NextWriter == \E item \in Items : WriterCall(item)

WriterSpec == Init /\ [][NextWriter]_vars

(***************************************************************************)
(* The Thumbnail Stub on its own: generate_thumbnail called on every path  *)
(* of up to MaxPathLen tokens (absolute and relative, with and without a   *)
(* directory part, the empty path).  call records the last call, its path  *)
(* and result, and the path and result of the call before it.              *)
(***************************************************************************)
PathTokens == { "/", ".", "tmp", "foo.jpg" }

ThumbPaths == UNION { [ 1 .. n -> PathTokens ] : n \in 0 .. MaxPathLen }

ThumbCall(file_path) ==
    /\ call.n < MaxThumbs
    /\ call' = [ n           |-> call.n + 1,
                 file_path   |-> file_path,
                 result      |-> generate_thumbnail(file_path),
                 prev_path   |-> IF call.n = 0 THEN file_path ELSE call.file_path,
                 prev_result |-> IF call.n = 0 THEN generate_thumbnail(file_path)
                                 ELSE call.result ]
    /\ UNCHANGED << linkVars, netVars, uiVars, fsVars >>

NextThumb == \E file_path \in ThumbPaths : ThumbCall(file_path)

ThumbSpec == Init /\ [][NextThumb]_vars

(***************************************************************************)
(* Properties.                                                             *)
(***************************************************************************)
\* the frames of one scripted response, in order
FixedResponse ==
    [ k \in 1 .. NumChunks |-> json_dumps([ type |-> "response_chunk", content |-> response_chunks[k] ]) ]
        \o << json_dumps([ type |-> "response_end", content |-> "" ]) >>

LastFrames(s, n) == SubSeq(s, Len(s) - n + 1, Len(s))

IsMessageData(d) == "type" \in DOMAIN d /\ d["type"] = "message"

\* C1: the frames a handler has sent for the message frame it took last are the
\* first frames of the fixed response (five response_chunk frames in list order,
\* then one response_end), whatever the frame's content and media; they are the
\* whole fixed response once the handler is back at reading the next frame.
C1_FixedResponse ==
    \A c \in Conns :
        IsMessageData(cur[c]) /\ pc[c] \in {"stream", "recv", "done"} =>
            /\ sent[c] <= Len(out[c])
            /\ LastFrames(out[c], sent[c]) = SubSeq(FixedResponse, 1, sent[c])
            /\ pc[c] = "recv" => sent[c] = NumChunks + 1

C1_Witness ==
    \E c \in Conns :
        /\ IsMessageData(cur[c])
        /\ "media" \in DOMAIN cur[c]
        /\ pc[c] = "recv"
        /\ LastFrames(out[c], NumChunks + 1) = FixedResponse

\* C2: every entry of the chat log was appended by the UI thread.
C2_OnlyUiThreadWrites == \A i \in 1 .. Len(writers) : writers[i] = "ui"

Active(c) == pc[c] \in {"recv", "media", "stream"}

Takes(c) == pc[c] = "recv" /\ inbox[c] # << >> /\ inbox'[c] = Tail(inbox[c])

IsUploadFrame(f) == f.wf /\ "type" \in DOMAIN f.val /\ f.val["type"] = "file_upload"

\* C4: handling a file_upload frame {name, content} leaves the filesystem as
\* save_uploaded_file leaves it for the non-image item {name, content}, sends no
\* frame and goes on to the next frame.
C4_UploadViaWriter ==
    [][ \A c \in Conns : Takes(c) /\ IsUploadFrame(Head(inbox[c])) =>
            LET d == Head(inbox[c]).val
                r == save_uploaded_file(dirs, files,
                         [ name |-> d["name"], content |-> d["content"], type |-> TextPlain ])
            IN  /\ r.ok
                /\ dirs' = r.dirs
                /\ files' = r.files
                /\ out' = out
                /\ pc'[c] = "recv" ]_vars

KnownTypes == {"message", "file_upload", "thumbnail_request"}

IsIgnorable(f) == f.wf /\ ("type" \notin DOMAIN f.val \/ f.val["type"] \notin KnownTypes)

\* C5: taking a well-formed frame whose type is missing or unknown sends nothing,
\* appends nothing to the chat log, changes no file or directory, and leaves the
\* handler reading the next frame.
C5_UnknownIgnored ==
    [][ \A c \in Conns : Takes(c) /\ IsIgnorable(Head(inbox[c])) =>
            /\ out' = out
            /\ messages' = messages
            /\ chat_display' = chat_display
            /\ files' = files
            /\ dirs' = dirs
            /\ conn' = conn
            /\ pc'[c] = "recv" ]_vars

C5_Witness ==
    \E c \in Conns :
        /\ cur[c] \in OtherFrames
        /\ pc[c] = "recv"
        /\ inbox[c] # << >>
        /\ out[c] = << >>
        /\ messages = << >>
        /\ files = NoFiles

IsResponseFrame(f) == f.val["type"] \in {"response_chunk", "response_end"}

Responses(c) == SelectSeq(out[c], IsResponseFrame)

\* C6: on every connection the response frames sent so far are whole copies of
\* the fixed response one after the other, followed by the first frames of one
\* more copy when a response is under way: a message frame starts its response
\* only after the response_end of the one before, and every copy is the same.
C6_SequentialResponses ==
    \A c \in Conns :
        /\ \A i \in 1 .. Len(Responses(c)) :
               Responses(c)[i] = FixedResponse[((i - 1) % (NumChunks + 1)) + 1]
        /\ pc[c] = "stream" => Len(Responses(c)) % (NumChunks + 1) = sent[c]
        /\ pc[c] \in {"recv", "media"} => Len(Responses(c)) % (NumChunks + 1) = 0

C6_Witness ==
    \E c \in Conns :
        /\ pc[c] = "recv"
        /\ Responses(c) = FixedResponse \o FixedResponse

HasAllFields(item) == DOMAIN item = {"name", "content", "type"}

IsRelative(name) == name = << >> \/ name[1] # "/"

\* <root>/media/<name> when type begins with "image", <root>/<name> otherwise
ClaimedTarget(item) ==
    RootDir \o (IF StartsWith(item.type, ImagePrefix) THEN << "media" >> ELSE << >>)
            \o Segments(item.name)

\* fs is old with the file at target holding content, and nothing else changed
OnlyChanged(old, fs, target, content) ==
    /\ DOMAIN fs = DOMAIN old \cup {target}
    /\ fs[target] = content
    /\ \A q \in DOMAIN old \ {target} : fs[q] = old[q]

\* C7 as claimed: a call that returns has changed exactly the file at
\* <root>/media/<name> or <root>/<name>, whatever the name.
C7_RoutedAnyName ==
    call.n > 0 /\ HasAllFields(call.item) /\ call.ok =>
        OnlyChanged(call.files, files, ClaimedTarget(call.item), call.item.content)

\* C7: for an item with a relative name, a call that returns has changed exactly
\* the file at <root>/media/<name> (type begins with "image") or <root>/<name>
\* (otherwise), which holds content; for an absolute name the one file changed
\* is at that absolute path.
C7_RoutedWrite ==
    call.n > 0 /\ HasAllFields(call.item) =>
        /\ call.ok /\ IsRelative(call.item.name) =>
               OnlyChanged(call.files, files, ClaimedTarget(call.item), call.item.content)
        /\ call.ok /\ ~IsRelative(call.item.name) =>
               OnlyChanged(call.files, files, Segments(call.item.name), call.item.content)

C7_Witness ==
    /\ call.n = 2
    /\ call.ok
    /\ call.item = ItemImg
    /\ ClaimedTarget(ItemImg) \in DOMAIN call.files
    /\ call.files[ClaimedTarget(ItemImg)] = "hi"
    /\ files[MediaDir \o << "x.png" >>] = "yo"

\* C8: a step only appends to the chat log, and every entry has one of the
\* three roles.
C8_AppendOnly ==
    /\ [][ IsPrefix(messages, messages') ]_vars
    /\ [](\A i \in 1 .. Len(messages) : messages[i].role \in {"user", "assistant", "system"})

C8_Witness ==
    /\ Len(messages) >= 3
    /\ \E i \in 1 .. Len(messages) : messages[i].role = "assistant"
    /\ \E i \in 1 .. Len(writers) : writers[i] = "ws"
    /\ \E i \in 1 .. Len(writers) : writers[i] = "ui" /\ messages[i].role = "user"

\* C9: once a connection is closed its handler sends no further frame, the
\* connection is not opened again, a handler that has returned stays returned,
\* and the handler's next step from the stream, or from the read with nothing
\* buffered, is its return, not a fault; and a handler whose connection closed
\* while it waits for a frame or streams a response does return.
C9_CleanExit ==
    /\ [][ \A c \in Conns : conn[c] = "closed" =>
              /\ out'[c] = out[c]
              /\ conn'[c] = "closed"
              /\ pc[c] = "done" => pc'[c] = "done"
              /\ pc[c] = "stream" => pc'[c] \in {"stream", "done"} /\ sent'[c] = sent[c]
              /\ pc[c] = "recv" /\ inbox[c] = << >> => pc'[c] \in {"recv", "done"} ]_vars
    /\ \A c \in Conns :
           (conn[c] = "closed" /\ pc[c] = "stream") ~> (pc[c] = "done")
    /\ \A c \in Conns :
           (conn[c] = "closed" /\ pc[c] = "recv" /\ inbox[c] = << >>) ~> (pc[c] = "done")

C9_Witness ==
    \E c \in Conns :
        /\ conn[c] = "closed"
        /\ pc[c] = "done"
        /\ IsMessageData(cur[c])
        /\ sent[c] \in 1 .. NumChunks
        /\ Len(out[c]) = sent[c]

\* C10: at most one listener thread is alive.
C10_OneListenerThread ==
    Cardinality({ t \in 1 .. Len(listeners) : listeners[t] \in {"starting", "serving"} }) <= 1

IsThumbFrame(f) ==
    /\ f.wf
    /\ "type" \in DOMAIN f.val
    /\ f.val["type"] = "thumbnail_request"
    /\ "filePath" \in DOMAIN f.val

\* C11: taking a thumbnail_request frame with filePath p sends, on that
\* connection and on no other, exactly one frame: type thumbnail_response, data
\* the Thumbnail Stub's result for p, filePath p; it appends nothing to the chat
\* log and changes no file or directory, and the handler reads the next frame.
\* (On a connection already closed the send raises ConnectionClosed: nothing is
\* sent and the handler returns.)
C11_ThumbnailReply ==
    [][ \A c \in Conns : Takes(c) /\ IsThumbFrame(Head(inbox[c])) =>
            LET p     == Head(inbox[c]).val["filePath"]
                reply == json_dumps([ type     |-> "thumbnail_response",
                                      data     |-> generate_thumbnail(p),
                                      filePath |-> p ])
            IN  /\ messages' = messages
                /\ chat_display' = chat_display
                /\ files' = files
                /\ dirs' = dirs
                /\ \A d \in Conns \ {c} : out'[d] = out[d]
                /\ conn[c] = "open" => out'[c] = Append(out[c], reply) /\ pc'[c] = "recv"
                /\ conn[c] # "open" => out'[c] = out[c] /\ pc'[c] = "done" ]_vars

C11_Witness ==
    \E c \in Conns :
        /\ cur[c] \in ThumbFrames
        /\ pc[c] = "recv"
        /\ Len(out[c]) = 1
        /\ out[c][1].val["type"] = "thumbnail_response"
        /\ out[c][1].val["filePath"] = FooJpg
        /\ messages = << >>
        /\ files = NoFiles

\* C12: the record the Thumbnail Stub returns for a path p has exactly the
\* fields thumbnailUrl and size, with thumbnailUrl = "/thumbnails/" + the base
\* name of p + ".thumb" and size = "100x100"; the result is the same for two
\* paths with the same base name, and so on repeated calls.
C12_ThumbnailRecord ==
    call.n > 0 =>
        /\ DOMAIN call.result = { "thumbnailUrl", "size" }
        /\ call.result["thumbnailUrl"] =
               << "/", "thumbnails", "/", PathName(call.file_path), ".thumb" >>
        /\ call.result["size"] = "100x100"
        /\ PathName(call.prev_path) = PathName(call.file_path) =>
               call.prev_result = call.result

ResponseDone(c) ==
    /\ pc[c] = "recv"
    /\ sent[c] = NumChunks + 1
    /\ LastFrames(out[c], NumChunks + 1) = FixedResponse

\* C13: a step taken while a response is streamed on an open connection (a
\* further frame arriving, a local send, a press of Disconnect, a step of
\* another handler) leaves the handler in the stream with the frames sent so far
\* kept, or is the send of the next frame of the response; and a response that
\* has started ends with response_end after all five chunks, or the connection
\* has been closed.
C13_NoCancel ==
    /\ [][ \A c \in Conns : pc[c] = "stream" /\ conn'[c] = "open" =>
              \/ pc'[c] = "stream" /\ sent'[c] = sent[c] /\ out'[c] = out[c]
              \/ /\ sent[c] < NumChunks
                 /\ pc'[c] = "stream"
                 /\ sent'[c] = sent[c] + 1
                 /\ out'[c] = Append(out[c], FixedResponse[sent[c] + 1])
              \/ /\ sent[c] = NumChunks
                 /\ pc'[c] = "recv"
                 /\ sent'[c] = NumChunks + 1
                 /\ out'[c] = Append(out[c], FixedResponse[NumChunks + 1]) ]_vars
    /\ \A c \in Conns : (pc[c] = "stream") ~> (ResponseDone(c) \/ conn[c] = "closed")

C13_Witness ==
    \E c \in Conns :
        /\ ResponseDone(c)
        /\ conn[c] = "open"
        /\ ~is_connected

IsMessageFrame(f) == f.wf /\ IsMessageData(f.val)

HasMedia(d) == "media" \in DOMAIN d /\ d["media"] # << >>

\* the handler of c moves on in this step
Moves(c) == pc'[c] # pc[c] \/ idx'[c] # idx[c] \/ sent'[c] # sent[c]

\* C14: taking a message frame appends its content as a user entry, writes no
\* file and sends nothing, and leads to the first media item (or, without
\* media, to the response); each step in the media list persists the item at
\* the handler's position and moves to the next position; the response is
\* entered, with no frame of it sent yet, only from the last item of the list
\* (or from the frame, without media); and a frame of the response is sent
\* only from within the response.
C14_FixedOrder ==
    [][ \A c \in Conns :
          /\ Takes(c) /\ IsMessageFrame(Head(inbox[c])) =>
                LET d == Head(inbox[c]).val
                IN  /\ messages' = Append(messages, [ role    |-> "user",
                                                       content |-> IF "content" \in DOMAIN d
                                                                   THEN d["content"] ELSE "" ])
                    /\ out' = out
                    /\ files' = files
                    /\ dirs' = dirs
                    /\ cur'[c] = d
                    /\ HasMedia(d) => pc'[c] = "media" /\ idx'[c] = 1
                    /\ ~HasMedia(d) => pc'[c] = "stream" /\ sent'[c] = 0
          /\ pc[c] = "media" /\ Moves(c) =>
                LET r == save_uploaded_file(dirs, files, cur[c]["media"][idx[c]])
                IN  /\ files' = r.files
                    /\ dirs' = r.dirs
                    /\ out' = out
                    /\ messages' = messages
                    /\ r.ok /\ idx[c] < Len(cur[c]["media"]) =>
                           pc'[c] = "media" /\ idx'[c] = idx[c] + 1
                    /\ r.ok /\ idx[c] = Len(cur[c]["media"]) =>
                           pc'[c] = "stream" /\ sent'[c] = 0
          /\ pc[c] # "stream" /\ pc'[c] = "stream" =>
                \/ pc[c] = "media" /\ idx[c] = Len(cur[c]["media"])
                \/ Takes(c) /\ IsMessageFrame(Head(inbox[c]))
                             /\ ~HasMedia(Head(inbox[c]).val)
          /\ Len(Responses(c)') > Len(Responses(c)) => pc[c] = "stream" ]_vars

C14_Witness ==
    \E c \in Conns :
        /\ IsMessageData(cur[c])
        /\ HasMedia(cur[c])
        /\ cur[c]["media"] = << ItemTxt, ItemImg >>
        /\ pc[c] = "stream"
        /\ sent[c] = 1
        /\ messages = << [ role |-> "user", content |-> "hi" ] >>
        /\ DOMAIN files = { RootDir \o << "a.txt" >>, MediaDir \o << "x.png" >> }
        /\ files[RootDir \o << "a.txt" >>] = "hi"
        /\ files[MediaDir \o << "x.png" >>] = "yo"

\* C15: taking a frame that is not valid JSON ends the handler of that
\* connection with a fault: the step sends nothing, appends nothing to the chat
\* log and changes no file or directory; and a handler ended by a fault stays
\* ended, takes no later frame of its connection and sends nothing more.
C15_MalformedFaults ==
    [][ \A c \in Conns :
          /\ Takes(c) /\ ~Head(inbox[c]).wf =>
                /\ pc'[c] = "fault"
                /\ out' = out
                /\ messages' = messages
                /\ chat_display' = chat_display
                /\ files' = files
                /\ dirs' = dirs
          /\ pc[c] = "fault" =>
                /\ pc'[c] = "fault"
                /\ inbox'[c] = inbox[c]
                /\ out'[c] = out[c] ]_vars

C15_Witness ==
    \E c \in Conns :
        /\ pc[c] = "fault"
        /\ cur[c] = NoData
        /\ inbox[c] # << >>
        /\ out[c] = << >>
        /\ messages = << >>
        /\ files = NoFiles

\* the log holds a user entry with the content of d, appended by the handler
UserEntryOf(d) ==
    \E i \in 1 .. Len(messages) :
        /\ messages[i] = [ role |-> "user", content |-> IF "content" \in DOMAIN d
                                                         THEN d["content"] ELSE "" ]
        /\ writers[i] = "ws"

\* C16: a media step whose write fails ends the handler with a fault; the step
\* sends nothing, keeps the chat log, and keeps every file and directory that
\* existed (the items written before the failing one included).  While the
\* media of a message is persisted and after such a fault, the user entry of
\* the message is in the log and no frame of a response to it has been sent;
\* after the fault the handler sends nothing more.
C16_WriteFailure ==
    /\ [][ \A c \in Conns :
              /\ /\ pc[c] = "media"
                 /\ Moves(c)
                 /\ ~save_uploaded_file(dirs, files, cur[c]["media"][idx[c]]).ok
                 => /\ pc'[c] = "fault"
                    /\ out' = out
                    /\ messages' = messages
                    /\ dirs \subseteq dirs'
                    /\ \A q \in DOMAIN files : q \in DOMAIN files' /\ files'[q] = files[q]
              /\ pc[c] = "fault" => pc'[c] = "fault" /\ out'[c] = out[c] ]_vars
    /\ [](\A c \in Conns :
             IsMessageData(cur[c]) /\ pc[c] \in {"media", "fault"} =>
                 /\ UserEntryOf(cur[c])
                 /\ Len(Responses(c)) % (NumChunks + 1) = 0)

C16_Witness ==
    \E c \in Conns :
        /\ pc[c] = "fault"
        /\ IsMessageData(cur[c])
        /\ HasMedia(cur[c])
        /\ cur[c]["media"] = << ItemImg, ItemBad, ItemTxt >>
        /\ messages = << [ role |-> "user", content |-> "" ] >>
        /\ DOMAIN files = { MediaDir \o << "x.png" >> }
        /\ files[MediaDir \o << "x.png" >>] = "yo"
        /\ out[c] = << >>

\* C17: while a listener is serving is_connected is true, and while
\* is_connected is false (after disconnect_websocket, before the next connect)
\* no handler takes a frame and no frame is sent.
C17_DisconnectStops ==
    /\ [](Serving # {} => is_connected)
    /\ [][ ~is_connected => out' = out /\ \A c \in Conns : ~Takes(c) ]_vars

Count(seq, Test(_)) == Cardinality({ i \in 1 .. Len(seq) : Test(seq[i]) })

IsAssistant(m) == m.role = "assistant"

IsResponseCallback(cb) == cb.fn = "response"

IsRunning(th) == th.pc # "done"

\* assistant entries of the chat log (the handlers of the listener append none)
NumAssistant == Count(messages, IsAssistant)

\* local sends with non-empty input so far: each started one typing thread
NumSends == Len(typing)

\* C18: a step that starts a typing thread is a send with non-empty input and
\* appends exactly one user entry with that input, on the UI thread; a send with
\* empty input changes nothing.  Every assistant entry is the first canned
\* response.  The assistant entries, the response callbacks still queued and
\* the typing threads still running add up to the number of sends, so there are
\* never more assistant entries than sends; and every send is answered: for
\* each n, once n sends were made there are eventually n assistant entries.
C18_LocalSend ==
    /\ [][ /\ typing' # typing /\ Len(typing') # Len(typing) =>
                 /\ Len(typing') = Len(typing) + 1
                 /\ SubSeq(typing', 1, Len(typing)) = typing
                 /\ typing'[Len(typing')].msg # ""
                 /\ messages' = Append(messages, [ role    |-> "user",
                                                    content |-> typing'[Len(typing')].msg ])
                 /\ writers' = Append(writers, "ui")
           /\ send_message("") => UNCHANGED vars ]_vars
    /\ [](\A i \in 1 .. Len(messages) :
             IsAssistant(messages[i]) => messages[i].content = responses[1] /\ writers[i] = "ui")
    /\ [](NumAssistant + Count(afterq, IsResponseCallback) + Count(typing, IsRunning) = NumSends)
    /\ \A n \in 1 .. MaxEvents : (NumSends >= n) ~> (NumAssistant >= n)

C18_Witness ==
    /\ NumSends = 2
    /\ typing[1].msg # typing[2].msg
    /\ Len(messages) = 4
    /\ messages[1].role = "user"
    /\ messages[2].role = "user"
    /\ messages[3] = [ role |-> "assistant", content |-> responses[1] ]
    /\ messages[4] = [ role |-> "assistant", content |-> responses[1] ]

\* C19: the typing indicator shows "Bot is typing..." only while the response
\* of some local send has not been appended yet: once every send has its
\* assistant entry the indicator text is empty, for any number of overlapping
\* sends and any interleaving of their typing threads.
C19_IndicatorClearedAtQuiescence ==
    /\ typing_indicator \in { "", BotIsTyping }
    /\ typing_indicator = BotIsTyping => NumAssistant < NumSends
    /\ NumAssistant = NumSends => typing_indicator = ""

C19_Witness ==
    /\ NumSends = 2
    /\ NumAssistant = 2
    /\ Count(typing, IsRunning) = 0
    /\ afterq = << >>
    /\ typing_indicator = ""
    /\ messages[2].role = "user"
    /\ writers = << "ui", "ui", "ui", "ui" >>

====
